---- MODULE Spec2Model ----
(***************************************************************************)
(* The splice engine of squash (src/squash/splice.c): moving bytes from a  *)
(* source to a sink through a codec.                                       *)
(*                                                                         *)
(*   Spec      squash_splice_custom_codec_with_options: the stream loop    *)
(*             and the one-shot accumulator, driven by user callbacks.     *)
(*   FileSpec  squash_splice_codec_with_options: the dispatcher, the       *)
(*             mapped one-shot path and squash_splice_stream.              *)
(*   SpliceSpec  a call of either entry point.                             *)
(*                                                                         *)
(* Statuses are the names of the SquashStatus values; the negative ones    *)
(* are the members of ErrorStatus.                                         *)
(***************************************************************************)
EXTENDS Integers, Sequences, FiniteSets, TLC

(* ------------------------------ bounds -------------------------------- *)

\* longest uncompressed input
MaxLen == 4
\* SQUASH_SPLICE_BUF_SIZE (512 in the source), scaled down
SQUASH_SPLICE_BUF_SIZE == 2
\* SQUASH_FILE_BUF_SIZE, scaled down
SQUASH_FILE_BUF_SIZE == 2
\* width of size_t in bits, scaled down
SIZE_BITS == 7
\* longest request a codec with a native splice makes of a callback
MaxRequest == 2

(* ----------------------------- helpers -------------------------------- *)

Min(a, b) == IF a < b THEN a ELSE b

\* byte values; the engine never inspects a byte, so inputs of pairwise
\* distinct bytes show every duplication, loss and reordering
MaxByte == MaxLen

Byte == 0..MaxByte

NumBytes == MaxByte + 1

Plain(n) == [i \in 1..n |-> i]

RECURSIVE Pow2(_)
Pow2(k) == IF k = 0 THEN 1 ELSE 2 * Pow2(k - 1)

SizeMod == Pow2(SIZE_BITS)

Take(s, n) == SubSeq(s, 1, Min(n, Len(s)))

Drop(s, n) == SubSeq(s, Min(n, Len(s)) + 1, Len(s))

ErrorStatus == {"FAILED", "BAD_PARAM", "MEMORY", "BUFFER_FULL", "INVALID_BUFFER", "IO"}

IsError(res) == res \in ErrorStatus

\* squash_npot: the next power of two, 0 for 0
RECURSIVE NpotFrom(_, _)
NpotFrom(v, p) == IF p >= v THEN p ELSE NpotFrom(v, 2 * p)

squash_npot(v) == IF v = 0 THEN 0 ELSE NpotFrom(v, 1) % SizeMod

\* v << k on a size_t
ShiftLeft(v, k) == (v * Pow2(k)) % SizeMod

(* ------------------------- the buffer codec ---------------------------- *)
(* A snappy-like one-shot codec: the encoding starts with the uncompressed  *)
(* length, followed by the transformed bytes; the bytes an encoding leaves  *)
(* out at the end are copies of the zero byte, so that an encoding of n     *)
(* bytes may stand for more than n bytes.                                   *)

Flip(s) == [i \in 1..Len(s) |-> MaxByte - s[i]]

BufferEncode(x) == <<Len(x)>> \o Flip(x)

BufferValid(c) == Len(c) >= 1 /\ c[1] >= Len(c) - 1

BufferDecode(c) ==
  IF c = <<>> THEN <<>> ELSE Flip(Tail(c)) \o [i \in 1..(c[1] - (Len(c) - 1)) |-> 0]

get_max_compressed_size(n) == n + 1

get_uncompressed_size(c) == IF Len(c) = 0 THEN 0 ELSE c[1]

\* [res, out]: out is what the call leaves in the first out_len bytes of the
\* output, meaningful only when res = "OK"
compress_buffer(fault, cap, x) ==
  IF fault # "none" THEN [res |-> fault, out |-> <<>>]
  ELSE IF cap < Len(x) + 1 THEN [res |-> "BUFFER_FULL", out |-> <<>>]
  ELSE [res |-> "OK", out |-> BufferEncode(x)]

decompress_buffer(fault, cap, c) ==
  IF fault # "none" THEN [res |-> fault, out |-> <<>>]
  ELSE IF ~BufferValid(c) THEN [res |-> "FAILED", out |-> <<>>]
  ELSE IF cap < c[1] THEN [res |-> "BUFFER_FULL", out |-> <<>>]
  ELSE [res |-> "OK", out |-> BufferDecode(c)]

(* ------------------------- the stream codec ---------------------------- *)
(* An incremental codec that packs two bytes into one symbol: 0 ends the    *)
(* stream, 1 + a is the single byte a, 1 + NumBytes + a * NumBytes + b is   *)
(* the pair a, b.                                                           *)

SymEnd == 0

SymSingle(a) == 1 + a

SymPair(a, b) == 1 + NumBytes + a * NumBytes + b

RECURSIVE PackPairs(_)
PackPairs(x) ==
  IF Len(x) < 2 THEN <<>>
  ELSE <<SymPair(x[1], x[2])>> \o PackPairs(Drop(x, 2))

\* the bytes PackPairs leaves over
Carry(x) == IF Len(x) % 2 = 1 THEN <<x[Len(x)]>> ELSE <<>>

SymDecode(s) ==
  IF s = SymEnd THEN <<>>
  ELSE IF s <= NumBytes THEN <<s - 1>>
  ELSE <<(s - 1 - NumBytes) \div NumBytes, (s - 1 - NumBytes) % NumBytes>>

RECURSIVE UnpackUntilEnd(_)
\* [out, used, ended]: the bytes of the symbols up to the first end symbol
UnpackUntilEnd(c) ==
  IF c = <<>> THEN [out |-> <<>>, used |-> 0, ended |-> FALSE]
  ELSE IF c[1] = SymEnd THEN [out |-> <<>>, used |-> 1, ended |-> TRUE]
  ELSE LET r == UnpackUntilEnd(Tail(c))
       IN [out |-> SymDecode(c[1]) \o r.out, used |-> 1 + r.used, ended |-> r.ended]

StreamEncode(x) ==
  PackPairs(x) \o (IF Carry(x) = <<>> THEN <<>> ELSE <<SymSingle(Carry(x)[1])>>) \o <<SymEnd>>

StreamDecode(c) == UnpackUntilEnd(c).out


(* ------------------------- the stream adaptor -------------------------- *)

NewStream ==
  [total_in |-> 0, total_out |-> 0, avail_in |-> 0, avail_out |-> 0,
   pending |-> <<>>, carry |-> <<>>, ended |-> FALSE, finished |-> FALSE]

\* what one call of the codec takes from input and appends to its pending output
StreamConsume(s, type, input, finishing) ==
  IF type = "COMPRESS"
  THEN LET data == s.carry \o input
           last == IF finishing /\ ~s.finished
                   THEN (IF Carry(data) = <<>> THEN <<>> ELSE <<SymSingle(Carry(data)[1])>>)
                        \o <<SymEnd>>
                   ELSE <<>>
       IN [used |-> Len(input),
           emitted |-> PackPairs(data) \o last,
           carry |-> IF finishing THEN <<>> ELSE Carry(data),
           ended |-> FALSE]
  ELSE LET u == IF s.ended THEN [out |-> <<>>, used |-> 0, ended |-> TRUE]
                ELSE UnpackUntilEnd(input)
       IN [used |-> u.used, emitted |-> u.out, carry |-> <<>>, ended |-> u.ended]

\* squash_stream_process (finishing = FALSE) and squash_stream_finish
\* (finishing = TRUE) on the bytes [next_in, next_in + avail_in) = input and an
\* output slot of avail_out bytes: [stream, out, res]
squash_stream_process(s, type, input, avail_out, finishing, fault) ==
  IF fault # "none"
  THEN [stream |-> [s EXCEPT !.avail_out = avail_out], out |-> <<>>, res |-> fault]
  ELSE LET c    == StreamConsume(s, type, input, finishing)
           pend == s.pending \o c.emitted
           out  == Take(pend, avail_out)
           rest == Drop(pend, avail_out)
       IN [stream |-> [total_in  |-> s.total_in + c.used,
                       total_out |-> s.total_out + Len(out),
                       avail_in  |-> Len(input) - c.used,
                       avail_out |-> avail_out - Len(out),
                       pending   |-> rest,
                       carry     |-> c.carry,
                       ended     |-> c.ended,
                       finished  |-> s.finished \/ finishing],
           out |-> out,
           res |-> IF rest # <<>> THEN "PROCESSING"
                   ELSE IF c.ended THEN "END_OF_STREAM"
                   ELSE IF finishing /\ type = "DECOMPRESS" THEN "FAILED"
                   ELSE "OK"]

(* ------------------------- the user callbacks -------------------------- *)

\* read_cb asked for req bytes of a source holding avail more: [res, n]
ReadOutcomes(req, avail) ==
  {[res |-> "IO", n |-> 0]}
  \cup {[res |-> "OK", n |-> k] : k \in 1..Min(req, avail)}
  \cup (IF avail <= req THEN {[res |-> "END_OF_STREAM", n |-> avail]} ELSE {})
  \cup (IF req = 0 /\ avail > 0
        THEN {[res |-> "OK", n |-> 0], [res |-> "END_OF_STREAM", n |-> 0]}
        ELSE {})

\* write_cb offered w bytes: [res, n], n the count it reports back
WriteOutcomes(w) ==
  {[res |-> "IO", n |-> 0]}
  \cup {[res |-> "OK", n |-> k] : k \in (IF w = 0 THEN {0} ELSE 1..w)}

\* what malloc'ed memory holds before anything is stored in it
Uninitialized(n, g) == [i \in 1..n |-> g]

(* ------------------------------ the state ------------------------------ *)

VARIABLES
  stream_type,      \* "COMPRESS" or "DECOMPRESS"
  length,           \* the byte budget, 0 for none
  codec,            \* [process_stream, knows, fault]
  plain,            \* the uncompressed bytes the source stands for
  source,           \* the bytes behind read_cb / fp_in
  srcPos,           \* how many of them were taken
  sink,             \* the bytes accepted by write_cb / published in fp_out
  fed,              \* the bytes handed to the codec so far
  emitted,          \* the bytes the codec has put out so far
  failed,           \* the negative status of read_cb (rd), write_cb (wr), the codec
                    \* (codec) and of an allocation (mem), "none" where none failed;
                    \* mem is "MAP" after a window past the first could not be mapped
                    \* for want of resources
  late,             \* per failure, the kinds of call made after it
  shortWrite,       \* some write_cb call accepted fewer bytes than offered
  pc,
  res,
  eof,
  stream,
  in_buf,
  out_buf,
  write_remaining,
  buffer,
  out_data,
  out_data_size,
  bytes_written,
  heap,             \* the resources the call holds
  result,           \* the status returned, "none" while running
  SQUASH_MAP_SPLICE,        \* the value of the environment variable
  SQUASH_MMAP_IO,           \* whether the build defines SQUASH_MMAP_IO
  mappable,                 \* per file, whether it can be memory-mapped
  squash_splice_try_mmap,
  locked,                   \* the files whose lock the call holds
  first_block,
  remaining,
  file,                     \* the SquashFile: [open, acc, pos]
  max_output_length,
  caller,           \* who called the custom entry point: "user" code with callbacks
                    \* of its own, or "file" for squash_file_splice
  splice_calls,     \* how often codec->impl.splice was invoked
  passed,           \* the [read, write, user_data] handed to codec->impl.splice
  ctx,              \* the struct SquashSpliceLimitedData of the call
  last,             \* the latest call of a limiter callback, as observed
  tpc,              \* per thread, where its call of squash_splice_with_options stands
  call,             \* per thread, the arguments of its call: [name, fp_in, fp_out]
  lock,             \* per FILE, the thread that holds its lock and how often: [owner, count]
  squash_splice_detect_once,  \* the once_flag: "init" or "done"
  seen,             \* the value of SQUASH_MAP_SPLICE the first detection read, "never"
                    \* before it
  locking,          \* per thread, whether its call has asked for a lock
  touched,          \* per thread, whether its call has accessed a FILE
  ret,              \* per thread, the status its call returned, "none" before
  lastUser,         \* per FILE, the thread whose call accessed it last
  cut,              \* per FILE, the threads whose call accessed it before lastUser did
  interleaved       \* a call accessed a FILE again after another call's access to it

args == <<stream_type, length, codec, plain, source>>

env == <<srcPos, sink, fed, emitted, failed, late, shortWrite>>

locals == <<res, eof, stream, in_buf, out_buf, write_remaining, buffer, out_data,
            out_data_size, bytes_written>>

nstate == <<caller, splice_calls, passed, ctx, last>>

\* the threads of the process and their calls of the file entry point
tstate == <<tpc, call, lock, squash_splice_detect_once, seen, locking, touched, ret, lastUser,
            cut, interleaved>>

files == <<SQUASH_MAP_SPLICE, SQUASH_MMAP_IO, mappable, squash_splice_try_mmap, locked,
           first_block, remaining, file, max_output_length, tstate>>

fstate == <<files, nstate>>

vars == <<args, env, locals, pc, heap, result, fstate>>

limit_input == stream_type = "COMPRESS" /\ length # 0

limit_output == stream_type = "DECOMPRESS" /\ length # 0

Faults == {"none", "FAILED", "INVALID_BUFFER", "BUFFER_FULL"}

\* the codecs without a native splice: one with process_stream, and the
\* buffer-only ones, knowing the uncompressed size or not
Codecs ==
  {[splice |-> FALSE, process_stream |-> TRUE, knows |-> FALSE, fault |-> f] : f \in Faults}
  \cup {[splice |-> FALSE, process_stream |-> FALSE, knows |-> k, fault |-> f] :
           k \in BOOLEAN, f \in Faults}

Encode(c, x) == IF c.process_stream THEN StreamEncode(x) ELSE BufferEncode(x)

Decode(c, y) == IF c.process_stream THEN StreamDecode(y) ELSE BufferDecode(y)

\* the callbacks and the user_data a caller hands to the custom entry point
\* (splice.c 431-433 for squash_file_splice)
Callbacks(who) ==
  IF who = "file"
  THEN [read |-> "squash_file_splice_read", write |-> "squash_file_splice_write",
        user_data |-> "SquashFileSpliceData"]
  ELSE [read |-> "read_cb", write |-> "write_cb", user_data |-> "user_data"]

NoCallbacks == [read |-> "none", write |-> "none", user_data |-> "none"]

NoContext ==
  [write_func |-> "none", read_func |-> "none", user_data |-> "none", stream_type |-> "none",
   remaining |-> 0, written |-> 0]

NoLimiterCall ==
  [side |-> "none", limited |-> FALSE, req |-> 0, before |-> 0, delegated |-> FALSE,
   asked |-> 0, cb_res |-> "none", cb_n |-> 0, res |-> "none", n |-> 0, after |-> 0]

\* the state of the native-splice path before the codec's splice is invoked
NoNative ==
  /\ splice_calls = 0
  /\ passed = NoCallbacks
  /\ ctx = NoContext
  /\ last = NoLimiterCall

\* two threads of one process, and the FILEs their calls are given
Threads == {"t1", "t2"}

Handles == {"f1", "f2"}

NoCall == [name |-> "none", fp_in |-> "none", fp_out |-> "none"]

Unlocked == [owner |-> "none", count |-> 0]

\* the file entry point has not been called: the once_flag is ONCE_FLAG_INIT
\* (splice.c 351) and no FILE is locked
NoThreads ==
  /\ tpc = [t \in Threads |-> "idle"]
  /\ call = [t \in Threads |-> NoCall]
  /\ lock = [h \in Handles |-> Unlocked]
  /\ squash_splice_detect_once = "init"
  /\ seen = "never"
  /\ locking = [t \in Threads |-> FALSE]
  /\ touched = [t \in Threads |-> FALSE]
  /\ ret = [t \in Threads |-> "none"]
  /\ lastUser = [h \in Handles |-> "none"]
  /\ cut = [h \in Handles |-> {}]
  /\ interleaved = FALSE

InitLocals ==
  /\ srcPos = 0
  /\ sink = <<>>
  /\ fed = <<>>
  /\ emitted = <<>>
  /\ failed = [rd |-> "none", wr |-> "none", codec |-> "none", mem |-> "none"]
  /\ late = [rd |-> {}, wr |-> {}, codec |-> {}]
  /\ shortWrite = FALSE
  /\ res = "OK"
  /\ eof = FALSE
  /\ stream = NewStream
  /\ in_buf = <<>>
  /\ out_buf = <<>>
  /\ write_remaining = 0
  /\ buffer = <<>>
  /\ out_data = <<>>
  /\ out_data_size = 0
  /\ bytes_written = 0
  /\ heap = {}
  /\ result = "none"

InitCall ==
  /\ stream_type \in {"COMPRESS", "DECOMPRESS"}
  /\ length \in 0..MaxLen
  /\ codec \in Codecs
  /\ plain \in {Plain(n) : n \in 0..MaxLen}
  /\ source = IF stream_type = "COMPRESS" THEN plain ELSE Encode(codec, plain)
  /\ NoNative
  /\ NoThreads
  /\ InitLocals

\* the state of a SquashFile: the bytes written to it, the count of bytes read from it
NoFile == [open |-> FALSE, acc |-> <<>>, pos |-> 0]

NewFile == [open |-> TRUE, acc |-> <<>>, pos |-> 0]

\* the custom entry point takes no files
NoFiles ==
  /\ SQUASH_MAP_SPLICE = "unset"
  /\ SQUASH_MMAP_IO = FALSE
  /\ mappable = [fp_in |-> FALSE, fp_out |-> FALSE]
  /\ squash_splice_try_mmap = 0
  /\ locked = {}
  /\ first_block = TRUE
  /\ remaining = 0
  /\ file = NoFile
  /\ max_output_length = 0

Init == InitCall /\ NoFiles /\ caller = "user" /\ pc = "entry"

\* a call of kind k ("read", "codec", "write") is noted under every failure
\* that came before it
Note(k) == [f \in DOMAIN late |-> IF failed[f] # "none" THEN late[f] \cup {k} ELSE late[f]]

Fail(f, status) == [failed EXCEPT ![f] = status]

(* ------------- squash_splice_custom_codec_with_options ----------------- *)

\* splice.c 560-594, 654-657: the choice of the path and its allocations
CustomEntry ==
  /\ pc = "entry"
  /\ ~codec.splice
  /\ IF codec.process_stream
     THEN \/ \* squash_stream_new_codec_with_options returns NULL
             /\ result' = "FAILED"
             /\ failed' = Fail("mem", "FAILED")
             /\ pc' = "done"
             /\ UNCHANGED <<heap, res, eof, stream, buffer>>
          \/ \E got \in SUBSET {"in_buf", "out_buf"} :
               /\ heap' = {"stream"} \cup got
               /\ stream' = NewStream
               /\ eof' = FALSE
               /\ IF got = {"in_buf", "out_buf"}
                  THEN res' = res /\ pc' = "read" /\ failed' = failed
                  ELSE res' = "MEMORY" /\ pc' = "cleanup_stream"
                       /\ failed' = Fail("mem", "MEMORY")
               /\ UNCHANGED <<result, buffer>>
     ELSE /\ heap' = {"buffer"}
          /\ buffer' = <<>>
          /\ eof' = FALSE
          /\ pc' = "acc_read"
          /\ UNCHANGED <<result, res, stream, failed>>
  /\ UNCHANGED <<args, fstate, srcPos, sink, fed, emitted, late, shortWrite, in_buf, out_buf,
                 write_remaining, out_data, out_data_size, bytes_written>>

\* splice.c 644-645: where the inner and the outer loop go next
LoopTest(r, e) ==
  IF r = "PROCESSING" THEN "process"
  ELSE IF r = "OK" /\ ~e THEN "read"
  ELSE "cleanup_stream"

\* the request of a loop that forgets the budget
ReadRequestUnlimited(total_in) == SQUASH_SPLICE_BUF_SIZE

\* splice.c 598-604: the size of the next read request
ReadRequest(total_in) ==
  IF limit_input
  THEN Min((length - total_in) % SizeMod, SQUASH_SPLICE_BUF_SIZE)
  ELSE SQUASH_SPLICE_BUF_SIZE

\* a loop that does not look at the status of read_cb
AfterReadUnchecked(r) == "process"

\* splice.c 607-608: a negative status of read_cb leaves the loop
AfterRead(r) == IF IsError(r) THEN "cleanup_stream" ELSE "process"

\* splice.c 597-610: refill in_buf through read_cb
StreamRead ==
  /\ pc = "read"
  /\ \E o \in ReadOutcomes(ReadRequest(stream.total_in), Len(source) - srcPos) :
       /\ srcPos' = srcPos + o.n
       /\ res' = o.res
       /\ late' = Note("read")
       /\ failed' = IF IsError(o.res) THEN Fail("rd", o.res) ELSE failed
       /\ stream' = [stream EXCEPT !.avail_in = o.n]
       /\ in_buf' = SubSeq(source, srcPos + 1, srcPos + o.n)
       /\ eof' = (eof \/ o.res = "END_OF_STREAM")
       /\ pc' = AfterRead(o.res)
  /\ UNCHANGED <<args, fstate, sink, fed, emitted, shortWrite, out_buf, write_remaining, buffer,
                 out_data, out_data_size, bytes_written, heap, result>>

\* splice.c 625-632: the count of bytes to drain after a step that produced
\* `produced` bytes: [n, over], over when the budget was overrun
WriteRemaining(produced, total_out) ==
  IF limit_output /\ total_out > length
  THEN [n |-> (produced - (total_out - length)) % SizeMod, over |-> TRUE]
  ELSE [n |-> produced, over |-> FALSE]

\* splice.c 613-632: one squash_stream_process / squash_stream_finish call and
\* the count of bytes to drain
StreamProcess ==
  /\ pc = "process"
  /\ LET input == Drop(in_buf, Len(in_buf) - stream.avail_in)
         r == squash_stream_process(stream, stream_type, input, SQUASH_SPLICE_BUF_SIZE,
                                    eof, codec.fault)
         w == WriteRemaining(SQUASH_SPLICE_BUF_SIZE - r.stream.avail_out, r.stream.total_out)
         res1 == IF w.over THEN "OK" ELSE r.res
         eof1 == eof \/ w.over
     IN /\ stream' = r.stream
        /\ fed' = fed \o Take(input, Len(input) - r.stream.avail_in)
        /\ emitted' = emitted \o r.out
        /\ late' = Note("codec")
        /\ IF IsError(r.res)
           THEN /\ res' = r.res
                /\ failed' = Fail("codec", r.res)
                /\ pc' = "cleanup_stream"
                /\ UNCHANGED <<eof, out_buf, write_remaining, result>>
           ELSE /\ failed' = failed
                /\ \/ \* assert (overrun < SQUASH_SPLICE_BUF_SIZE) fails, assertions on
                      /\ w.over /\ r.stream.total_out - length >= SQUASH_SPLICE_BUF_SIZE
                      /\ result' = "ABORT"
                      /\ pc' = "done"
                      /\ UNCHANGED <<res, eof, out_buf, write_remaining>>
                   \/ /\ out_buf' = r.out
                      /\ write_remaining' = w.n
                      /\ res' = res1
                      /\ eof' = eof1
                      /\ pc' = IF w.n # 0 THEN "write" ELSE LoopTest(res1, eof1)
                      /\ UNCHANGED result
  /\ UNCHANGED <<args, fstate, srcPos, sink, shortWrite, in_buf, buffer, out_data,
                 out_data_size, bytes_written, heap>>

\* splice.c 636: the bytes offered to write_cb when `left` are still to drain
StreamOffer(buf, left) == Take(buf, left)

\* splice.c 637-638, 644-645: after a failed write_cb
AfterWriteError(r, e) == LoopTest(r, e)

\* splice.c 634-642: one write_cb call of the drain loop
StreamWrite ==
  /\ pc = "write"
  /\ \E o \in WriteOutcomes(write_remaining) :
       /\ late' = Note("write")
       /\ IF IsError(o.res)
          THEN /\ failed' = Fail("wr", o.res)
               /\ pc' = AfterWriteError(res, eof)
               /\ UNCHANGED <<sink, shortWrite, write_remaining>>
          ELSE /\ sink' = sink \o Take(StreamOffer(out_buf, write_remaining), o.n)
               /\ shortWrite' = (shortWrite \/ o.n < write_remaining)
               /\ write_remaining' = write_remaining - o.n
               /\ pc' = IF write_remaining - o.n # 0 THEN "write" ELSE LoopTest(res, eof)
               /\ UNCHANGED failed
  /\ UNCHANGED <<args, fstate, srcPos, fed, emitted, res, eof, stream, in_buf, out_buf, buffer,
                 out_data, out_data_size, bytes_written, heap, result>>

\* splice.c 650-652: what cleanup_stream releases
StreamReleased == {"in_buf", "out_buf"}

\* splice.c 647-652, 756: the end of the stream-loop path
CleanupStream ==
  /\ pc = "cleanup_stream"
  /\ heap' = heap \ StreamReleased
  /\ result' = IF res = "END_OF_STREAM" THEN "OK" ELSE res
  /\ pc' = "done"
  /\ UNCHANGED <<args, fstate, env, locals>>

\* splice.c 662: the size of the next read request of the accumulator
AccReadRequest(old_size) ==
  IF limit_input THEN (length - old_size) % SizeMod ELSE SQUASH_SPLICE_BUF_SIZE

\* splice.c 661-678: one turn of the loop reading all data into buffer
AccRead ==
  /\ pc = "acc_read"
  /\ \/ \* squash_buffer_set_size fails
        /\ result' = "MEMORY"
        /\ failed' = Fail("mem", "MEMORY")
        /\ pc' = "done"
        /\ UNCHANGED <<srcPos, late, res, eof, buffer>>
     \/ \E o \in ReadOutcomes(AccReadRequest(Len(buffer)), Len(source) - srcPos) :
          /\ srcPos' = srcPos + o.n
          /\ res' = o.res
          /\ late' = Note("read")
          /\ IF IsError(o.res)
             THEN /\ failed' = Fail("rd", o.res)
                  /\ result' = o.res
                  /\ pc' = "done"
                  /\ UNCHANGED <<eof, buffer>>
             ELSE LET grown == buffer \o SubSeq(source, srcPos + 1, srcPos + o.n)
                      e == o.res = "END_OF_STREAM" \/ (limit_input /\ Len(grown) = length)
                  IN /\ buffer' = grown
                     /\ eof' = e
                     /\ pc' = IF e THEN "acc_process" ELSE "acc_read"
                     /\ UNCHANGED <<failed, result>>
  /\ UNCHANGED <<args, fstate, sink, fed, emitted, shortWrite, stream, in_buf, out_buf,
                 write_remaining, out_data, out_data_size, bytes_written, heap>>

\* splice.c 738-739: the output is cut to the budget before it is drained
Truncated(size) == IF limit_output /\ size > length THEN length ELSE size

\* splice.c 690-691: a failed compress_buffer skips the drain
AfterCompress(r) == IF r # "OK" THEN "cleanup_buffer" ELSE "acc_write"

\* splice.c 709, 736: after decompress_buffer of a knowing codec
AfterDecompress(r) == "acc_write"

\* splice.c 681-715: the one-shot transform (for an unknowing codec, the seed)
AccProcess ==
  /\ pc = "acc_process"
  /\ IF stream_type = "COMPRESS"
     THEN LET cap == get_max_compressed_size(Len(buffer))
              r == compress_buffer(codec.fault, cap, buffer)
          IN \/ \* malloc fails
                /\ res' = "MEMORY"
                /\ failed' = Fail("mem", "MEMORY")
                /\ pc' = "cleanup_buffer"
                /\ out_data_size' = cap
                /\ UNCHANGED <<fed, emitted, late, out_data, heap>>
             \/ /\ heap' = heap \cup {"out_data"}
                /\ fed' = buffer
                /\ late' = Note("codec")
                /\ res' = r.res
                /\ pc' = AfterCompress(r.res)
                /\ IF r.res # "OK"
                   THEN /\ failed' = Fail("codec", r.res)
                        /\ out_data_size' = cap
                        /\ UNCHANGED <<out_data, emitted>>
                   ELSE /\ out_data' = r.out
                        /\ emitted' = r.out
                        /\ out_data_size' = Truncated(Len(r.out))
                        /\ UNCHANGED failed
     ELSE IF codec.knows
     THEN LET size == get_uncompressed_size(buffer)
              r == decompress_buffer(codec.fault, size, buffer)
          IN IF size = 0
             THEN /\ res' = "INVALID_BUFFER"
                  /\ pc' = "cleanup_buffer"
                  /\ out_data_size' = 0
                  /\ UNCHANGED <<fed, emitted, late, failed, out_data, heap>>
             ELSE \/ \* malloc fails
                     /\ res' = "MEMORY"
                     /\ failed' = Fail("mem", "MEMORY")
                     /\ pc' = "cleanup_buffer"
                     /\ out_data_size' = size
                     /\ UNCHANGED <<fed, emitted, late, out_data, heap>>
                  \/ \E g \in Byte :
                       LET out == IF r.res = "OK" THEN r.out ELSE Uninitialized(size, g)
                       IN /\ heap' = heap \cup {"out_data"}
                          /\ fed' = buffer
                          /\ late' = Note("codec")
                          /\ res' = r.res
                          /\ failed' = IF r.res # "OK" THEN Fail("codec", r.res) ELSE failed
                          /\ out_data' = out
                          /\ emitted' = out
                          /\ out_data_size' = Truncated(Len(out))
                          /\ pc' = AfterDecompress(r.res)
     ELSE /\ out_data_size' = ShiftLeft(squash_npot(Len(buffer)), 3)
          /\ pc' = "acc_retry"
          /\ UNCHANGED <<fed, emitted, late, failed, res, out_data, heap>>
  /\ bytes_written' = 0
  /\ UNCHANGED <<args, fstate, srcPos, sink, shortWrite, eof, stream, in_buf, out_buf,
                 write_remaining, buffer, result>>

\* splice.c 727-732: after an attempt of an unknowing codec
AfterRetry(r) == IF r = "BUFFER_FULL" THEN "acc_retry" ELSE "acc_write"

\* splice.c 717-732: one attempt of an unknowing codec at the current capacity
AccRetry ==
  /\ pc = "acc_retry"
  /\ LET c == out_data_size
         r == decompress_buffer(codec.fault, c, buffer)
     IN \/ \* malloc fails
           /\ heap' = heap \ {"out_data"}
           /\ res' = "MEMORY"
           /\ failed' = Fail("mem", "MEMORY")
           /\ pc' = "cleanup_buffer"
           /\ UNCHANGED <<fed, emitted, late, out_data, out_data_size>>
        \/ \E g \in Byte :
             LET out == IF r.res = "OK" THEN r.out ELSE Uninitialized(c, g)
             IN /\ heap' = heap \cup {"out_data"}
                /\ fed' = buffer
                /\ late' = Note("codec")
                /\ res' = r.res
                /\ pc' = AfterRetry(r.res)
                /\ IF r.res = "BUFFER_FULL"
                   THEN /\ out_data_size' = ShiftLeft(out_data_size, 1)
                        /\ UNCHANGED <<out_data, emitted, failed>>
                   ELSE /\ out_data' = out
                        /\ emitted' = out
                        /\ failed' = IF r.res # "OK" THEN Fail("codec", r.res) ELSE failed
                        /\ out_data_size' = Truncated(Len(out))
  /\ UNCHANGED <<args, fstate, srcPos, sink, shortWrite, eof, stream, in_buf, out_buf,
                 write_remaining, buffer, bytes_written, result>>

\* splice.c 742-743: the bytes offered to write_cb after `done` were accepted
AccOffer(data, size, done) == SubSeq(data, done + 1, size)

\* splice.c 741-748: one write_cb call of the final drain
AccWrite ==
  /\ pc = "acc_write"
  /\ LET wlen == out_data_size - bytes_written
     IN \E o \in WriteOutcomes(wlen) :
          /\ res' = o.res
          /\ late' = Note("write")
          /\ IF o.res # "OK"
             THEN /\ failed' = Fail("wr", o.res)
                  /\ pc' = "cleanup_buffer"
                  /\ UNCHANGED <<sink, shortWrite, bytes_written>>
             ELSE /\ sink' = sink \o Take(AccOffer(out_data, out_data_size, bytes_written), o.n)
                  /\ shortWrite' = (shortWrite \/ o.n < wlen)
                  /\ bytes_written' = bytes_written + o.n
                  /\ pc' = IF bytes_written + o.n # out_data_size THEN "acc_write"
                           ELSE "cleanup_buffer"
                  /\ UNCHANGED failed
  /\ UNCHANGED <<args, fstate, srcPos, fed, emitted, eof, stream, in_buf, out_buf, write_remaining,
                 buffer, out_data, out_data_size, heap, result>>

\* splice.c 751-756: the end of the accumulator path
CleanupBuffer ==
  /\ pc = "cleanup_buffer"
  /\ heap' = heap \ {"buffer", "out_data"}
  /\ result' = res
  /\ pc' = "done"
  /\ UNCHANGED <<args, fstate, env, locals>>

Next ==
  \/ CustomEntry
  \/ StreamRead
  \/ StreamProcess
  \/ StreamWrite
  \/ CleanupStream
  \/ AccRead
  \/ AccProcess
  \/ AccRetry
  \/ AccWrite
  \/ CleanupBuffer

Spec == Init /\ [][Next]_vars

(* ------------- the stream loop with a read_cb that keeps the contract ---- *)

\* a codec with process_stream (splice.c 581)
InitStream == Init /\ codec.process_stream

\* splice.c 597-610 with a read_cb that reports END_OF_STREAM only when the
\* source holds no more bytes
ContractRead ==
  /\ StreamRead
  /\ res' = "END_OF_STREAM" => srcPos' = Len(source)

NextStream ==
  \/ CustomEntry
  \/ ContractRead
  \/ StreamProcess
  \/ StreamWrite
  \/ CleanupStream

\* the call keeps running until it returns
StreamLiveSpec == InitStream /\ [][NextStream]_vars /\ WF_vars(NextStream)

(* ---------------- the native splice and the byte-budget limiter -------- *)

\* a codec with a native splice; the one modelled copies its input to its output
NativeCodecs ==
  {[splice |-> TRUE, process_stream |-> FALSE, knows |-> FALSE, fault |-> "none"]}

InitNative ==
  /\ stream_type \in {"COMPRESS", "DECOMPRESS"}
  /\ length \in 0..MaxLen
  /\ codec \in NativeCodecs
  /\ plain \in {Plain(n) : n \in 0..MaxLen}
  /\ source = plain
  /\ caller \in {"user", "file"}
  /\ NoNative
  /\ NoThreads
  /\ InitLocals
  /\ NoFiles
  /\ pc = "entry"

\* splice.c 546: res > 0
PositiveStatus == {"OK", "PROCESSING", "END_OF_STREAM"}

\* splice.c 566, 579: the callbacks and the user_data handed to codec->impl.splice
\* for a caller that gave cbs
SpliceArguments(len, cbs) ==
  IF len = 0
  THEN [read |-> "squash_file_splice_read", write |-> "squash_file_splice_write",
        user_data |-> cbs.user_data]
  ELSE [read |-> "squash_splice_custom_limited_read",
        write |-> "squash_splice_custom_limited_write", user_data |-> "ctx"]

\* splice.c 571-578: the struct SquashSpliceLimitedData of a call
LimitedData(len, cbs) ==
  [write_func |-> cbs.write, read_func |-> cbs.read, user_data |-> cbs.user_data,
   stream_type |-> stream_type, remaining |-> len, written |-> 0]

\* splice.c 564-580: the codec's splice is invoked
NativeEntry ==
  /\ pc = "entry"
  /\ codec.splice
  /\ splice_calls' = splice_calls + 1
  /\ passed' = SpliceArguments(length, Callbacks(caller))
  /\ ctx' = IF length = 0 THEN ctx ELSE LimitedData(length, Callbacks(caller))
  /\ pc' = "native"
  /\ UNCHANGED <<args, env, locals, heap, result, files, caller, last>>

\* splice.c 379-409: squash_file_splice_read asked for req bytes: [res, n]
squash_file_splice_read(req) ==
  LET limited == stream_type = "COMPRESS" /\ length # 0
      left == (length - srcPos) % SizeMod
      requested == IF limited THEN Min(req, left) ELSE req
      bytes_read == Min(requested, Len(source) - srcPos)
  IN IF limited /\ left = 0 THEN {[res |-> "END_OF_STREAM", n |-> 0]}
     ELSE IF requested = 0
     THEN \* assert (requested != 0) fails, or NDEBUG and fread of no bytes
          {[res |-> "ABORT", n |-> 0], [res |-> "END_OF_STREAM", n |-> 0],
           [res |-> "IO", n |-> 0]}
     ELSE {[res |-> IF bytes_read = 0 THEN "END_OF_STREAM" ELSE "OK", n |-> bytes_read],
           [res |-> "IO", n |-> 0]}

\* splice.c 412-421: squash_file_splice_write offered w bytes: [res, n]
squash_file_splice_write(w) ==
  {[res |-> "OK", n |-> w]} \cup {[res |-> "IO", n |-> k] : k \in 0..(w - 1)}

\* the caller's read callback asked for req bytes
CallerRead(req) ==
  IF caller = "file" THEN squash_file_splice_read(req)
  ELSE ReadOutcomes(req, Len(source) - srcPos)

\* the caller's write callback offered w bytes
CallerWrite(w) ==
  IF caller = "file" THEN squash_file_splice_write(w) ELSE WriteOutcomes(w)

\* a limiter that hands the request on as it came
LimitedRequestUnclamped(limited, req, left) == req

\* splice.c 512-513, 542-543: the length asked of the user callback
LimitedRequest(limited, req, left) == IF limited /\ req > left THEN left ELSE req

\* splice.c 537: the limited read gives up before delegating
ReadExhausted(left) == left = 0

\* splice.c 515: the limited write gives up before delegating
WriteExhausted(limit_out, asked) == limit_out /\ asked = 0

\* splice.c 546-547: remaining after the read callback reported n bytes
LimitedReadRemaining(limit_in, r, left, n) ==
  IF limit_in /\ r \in PositiveStatus THEN (left - n) % SizeMod ELSE left

\* splice.c 520-524: remaining after the write callback reported n bytes
LimitedWriteRemaining(limit_out, r, left, n) ==
  IF IsError(r) THEN left
  ELSE IF limit_out THEN (left - n) % SizeMod ELSE left

\* splice.c 530-550: the outcomes of squash_splice_custom_limited_read asked
\* for req bytes
squash_splice_custom_limited_read(req) ==
  LET limit_in == ctx.stream_type = "COMPRESS"
      asked == LimitedRequest(limit_in, req, ctx.remaining)
  IN IF ReadExhausted(ctx.remaining)
     THEN {[res |-> "END_OF_STREAM", n |-> 0, delegated |-> FALSE, asked |-> 0,
            cb_res |-> "none", cb_n |-> 0, remaining |-> ctx.remaining,
            written |-> ctx.written]}
     ELSE {[res |-> o.res, n |-> o.n, delegated |-> TRUE, asked |-> asked,
            cb_res |-> o.res, cb_n |-> o.n,
            remaining |-> LimitedReadRemaining(limit_in, o.res, ctx.remaining, o.n),
            written |-> ctx.written] : o \in CallerRead(asked)}

\* splice.c 505-528: the outcomes of squash_splice_custom_limited_write offered
\* req bytes
squash_splice_custom_limited_write(req) ==
  LET limit_out == ctx.stream_type = "DECOMPRESS"
      asked == LimitedRequest(limit_out, req, ctx.remaining)
  IN IF WriteExhausted(limit_out, asked)
     THEN {[res |-> "END_OF_STREAM", n |-> asked, delegated |-> FALSE, asked |-> asked,
            cb_res |-> "none", cb_n |-> 0, remaining |-> ctx.remaining,
            written |-> ctx.written]}
     ELSE {[res |-> o.res, n |-> o.n, delegated |-> TRUE, asked |-> asked,
            cb_res |-> o.res, cb_n |-> o.n,
            remaining |-> LimitedWriteRemaining(limit_out, o.res, ctx.remaining, o.n),
            written |-> IF IsError(o.res) THEN ctx.written ELSE ctx.written + o.n] :
            o \in CallerWrite(asked)}

\* what a limiter call leaves behind for the observer
Observed(side, limited, req, r) ==
  [side |-> side, limited |-> limited, req |-> req, before |-> ctx.remaining,
   delegated |-> r.delegated, asked |-> r.asked, cb_res |-> r.cb_res, cb_n |-> r.cb_n,
   res |-> r.res, n |-> r.n, after |-> r.remaining]

\* whether the callbacks the codec holds belong to the user_data it holds
Matched == passed.user_data \in {"ctx", "SquashFileSpliceData"}

\* the codec asks its read callback for req bytes
NativeRead ==
  /\ pc = "native"
  /\ \E req \in 0..MaxRequest :
       IF passed.read = "squash_splice_custom_limited_read"
       THEN \E r \in squash_splice_custom_limited_read(req) :
              /\ last' = Observed("read", ctx.stream_type = "COMPRESS", req, r)
              /\ ctx' = [ctx EXCEPT !.remaining = r.remaining]
              /\ IF r.res = "ABORT"
                 THEN result' = "ABORT" /\ pc' = "done" /\ UNCHANGED <<srcPos, fed, failed>>
                 ELSE /\ srcPos' = srcPos + r.n
                      /\ fed' = fed \o SubSeq(source, srcPos + 1, srcPos + r.n)
                      /\ failed' = IF IsError(r.res) THEN Fail("rd", r.res) ELSE failed
                      /\ UNCHANGED <<result, pc>>
       ELSE IF Matched
       THEN \E o \in squash_file_splice_read(req) :
              /\ IF o.res = "ABORT"
                 THEN result' = "ABORT" /\ pc' = "done" /\ UNCHANGED <<srcPos, fed, failed>>
                 ELSE /\ srcPos' = srcPos + o.n
                      /\ fed' = fed \o SubSeq(source, srcPos + 1, srcPos + o.n)
                      /\ failed' = IF IsError(o.res) THEN Fail("rd", o.res) ELSE failed
                      /\ UNCHANGED <<result, pc>>
              /\ UNCHANGED <<ctx, last>>
       ELSE \* squash_file_splice_read run on a user_data that is no
            \* struct SquashFileSpliceData: the call crashes, or reads elsewhere
            /\ \/ result' = "ABORT" /\ pc' = "done" /\ fed' = fed
               \/ \E g \in Byte : \E n \in 0..Min(req, MaxLen - Len(fed)) :
                    fed' = fed \o Uninitialized(n, g) /\ UNCHANGED <<result, pc>>
            /\ UNCHANGED <<srcPos, failed, ctx, last>>
  /\ UNCHANGED <<args, sink, emitted, late, shortWrite, locals, heap, files, caller,
                 splice_calls, passed>>

\* the codec offers its write callback the next bytes of its output
NativeWrite ==
  /\ pc = "native"
  /\ LET pending == Drop(fed, Len(emitted))
     IN \E req \in 0..Min(MaxRequest, Len(pending)) :
          IF passed.write = "squash_splice_custom_limited_write"
          THEN \E r \in squash_splice_custom_limited_write(req) :
                 /\ last' = Observed("write", ctx.stream_type = "DECOMPRESS", req, r)
                 /\ ctx' = [ctx EXCEPT !.remaining = r.remaining, !.written = r.written]
                 /\ sink' = IF r.delegated THEN sink \o Take(pending, r.n) ELSE sink
                 /\ emitted' = emitted \o Take(pending, IF r.delegated THEN r.n ELSE req)
                 /\ failed' = IF IsError(r.res) THEN Fail("wr", r.res) ELSE failed
                 /\ UNCHANGED <<result, pc>>
          ELSE IF Matched
          THEN \E o \in squash_file_splice_write(req) :
                 /\ sink' = sink \o Take(pending, o.n)
                 /\ emitted' = emitted \o Take(pending, o.n)
                 /\ failed' = IF IsError(o.res) THEN Fail("wr", o.res) ELSE failed
                 /\ UNCHANGED <<result, pc, ctx, last>>
          ELSE \* squash_file_splice_write run on a user_data that is no
               \* struct SquashFileSpliceData: the call crashes, or writes elsewhere
               /\ \/ result' = "ABORT" /\ pc' = "done" /\ emitted' = emitted
                  \/ emitted' = emitted \o Take(pending, req) /\ UNCHANGED <<result, pc>>
               /\ UNCHANGED <<sink, failed, ctx, last>>
  /\ UNCHANGED <<args, srcPos, fed, late, shortWrite, locals, heap, files, caller,
                 splice_calls, passed>>

\* splice.c 566, 579: the status of the codec's splice is the status of the call
NativeStatus(st) == st

\* the codec's splice returns
NativeReturn ==
  /\ pc = "native"
  /\ \E st \in {"OK", "FAILED"} :
       /\ res' = st
       /\ result' = NativeStatus(st)
  /\ pc' = "done"
  /\ UNCHANGED <<args, env, eof, stream, in_buf, out_buf, write_remaining, buffer, out_data,
                 out_data_size, bytes_written, heap, fstate>>

NextNative ==
  \/ NativeEntry
  \/ NativeRead
  \/ NativeWrite
  \/ NativeReturn

\* squash_splice_custom_codec_with_options with a codec that has a native splice
NativeSpec == InitNative /\ [][NextNative]_vars

(* ------------------- the file layer the engine calls ------------------- *)

\* squash_mapped_file_init / _init_full on a file holding avail more bytes:
\* [ok, length]. A window of no bytes cannot be mapped; a read window longer
\* than the file is cut to the file when the length is a suggestion.
squash_mapped_file_init(can_map, want, avail, writable, suggestion) ==
  LET len == IF writable THEN want
             ELSE IF want = 0 \/ (suggestion /\ want > avail) THEN avail
             ELSE want
  IN [ok |-> can_map /\ len > 0 /\ (writable \/ len <= avail), length |-> len]

\* squash_file_write: the bytes join what the SquashFile compresses
squash_file_write(fault, f, data) ==
  IF fault # "none" THEN [res |-> fault, file |-> f]
  ELSE [res |-> "OK", file |-> [f EXCEPT !.acc = @ \o data]]

\* squash_file_read of at most want bytes, decoded being all the bytes the
\* compressed file holds: [res, n]
squash_file_read(fault, f, want, decoded) ==
  IF fault # "none" THEN [res |-> fault, n |-> 0]
  ELSE IF f.pos >= Len(decoded) THEN [res |-> "END_OF_STREAM", n |-> 0]
  ELSE [res |-> "OK", n |-> Min(want, Len(decoded) - f.pos)]

\* the statuses squash_file_read may report for a read that delivered bytes and
\* left `rest` decoded bytes behind (splice.c 314 expects PROCESSING of it)
FileReadStatus(r, rest) ==
  IF r = "OK" /\ rest > 0 THEN {"OK", "PROCESSING"} ELSE {r}

\* squash_codec_compress_with_options / squash_codec_decompress_with_options
squash_codec_compress(c, cap, x) ==
  IF c.fault # "none" THEN [res |-> c.fault, out |-> <<>>]
  ELSE IF cap < Len(Encode(c, x)) THEN [res |-> "BUFFER_FULL", out |-> <<>>]
  ELSE [res |-> "OK", out |-> Encode(c, x)]

squash_codec_decompress(c, cap, y) ==
  IF c.fault # "none" THEN [res |-> c.fault, out |-> <<>>]
  ELSE IF cap < Len(Decode(c, y)) THEN [res |-> "BUFFER_FULL", out |-> <<>>]
  ELSE [res |-> "OK", out |-> Decode(c, y)]

(* ----------------- squash_splice_codec_with_options -------------------- *)

\* splice.c 354-366
squash_splice_detect_enable(ev) ==
  IF ev = "unset" \/ ev = "yes" THEN 2
  ELSE IF ev = "always" THEN 3
  ELSE IF ev = "no" THEN 1
  ELSE 2

\* a dispatcher that would try the mapped one-shot path whatever the preference
TryMapAlways(try_mmap, c) == TRUE

\* splice.c 476: whether the mapped one-shot path is tried; a codec with
\* process_stream is one whose create_stream is set
TryMap(try_mmap, c) == try_mmap = 3 \/ (try_mmap = 2 /\ ~c.process_stream)

InitFile ==
  /\ InitCall
  /\ caller = "file"
  /\ pc = "dispatch"
  /\ SQUASH_MAP_SPLICE \in {"unset", "no", "yes", "always", "other"}
  /\ SQUASH_MMAP_IO \in BOOLEAN
  /\ mappable \in [{"fp_in", "fp_out"} -> BOOLEAN]
  /\ squash_splice_try_mmap = 0
  /\ locked = {}
  /\ first_block = TRUE
  /\ remaining = 0
  /\ file = NoFile
  /\ max_output_length = 0

custom == <<eof, stream, in_buf, out_buf, write_remaining, buffer, out_data, out_data_size,
            bytes_written, heap, late, shortWrite>>

config == <<args, SQUASH_MAP_SPLICE, SQUASH_MMAP_IO, mappable, custom, nstate, tstate>>

\* splice.c 461-478: the one-time detection, the locks and the choice of path
FileDispatch ==
  /\ pc = "dispatch"
  /\ squash_splice_try_mmap' = squash_splice_detect_enable(SQUASH_MAP_SPLICE)
  /\ locked' = {"fp_in", "fp_out"}
  /\ res' = "FAILED"
  /\ pc' = IF TryMap(squash_splice_try_mmap', codec) THEN "map" ELSE "stream"
  /\ UNCHANGED <<config, srcPos, sink, emitted, fed, failed, result, first_block, remaining, file,
                 max_output_length>>

\* a map path that would commit its windows whatever the status
MapCommitAlways(r) == TRUE

\* splice.c 164-168, 185-190, 194-197: the windows are destroyed with commit
\* where the codec returned OK, and without anywhere else
MapCommit(r) == r = "OK"

\* splice.c 480: where the dispatcher goes on r, the status of squash_splice_map
MapNext(r) == IF r # "OK" THEN "stream" ELSE "unlock"

\* splice.c 155-168, 194-199, 480: the mapped one-shot path, compressing
SpliceMapCompress ==
  /\ pc = "map" /\ stream_type = "COMPRESS"
  /\ LET in  == squash_mapped_file_init(mappable.fp_in, length, Len(source) - srcPos,
                                        FALSE, FALSE)
         cap == get_max_compressed_size(in.length)
         out == squash_mapped_file_init(mappable.fp_out, cap, 0, TRUE, FALSE)
         data == SubSeq(source, srcPos + 1, srcPos + in.length)
         r == squash_codec_compress(codec, cap, data)
     IN IF ~in.ok \/ ~out.ok
        THEN /\ pc' = MapNext(res)
             /\ UNCHANGED <<res, srcPos, sink, emitted, fed, failed, max_output_length>>
        ELSE /\ res' = r.res
             /\ fed' = data
             /\ max_output_length' = cap
             /\ emitted' = emitted \o r.out
             /\ failed' = IF r.res = "OK" THEN failed ELSE Fail("codec", r.res)
             /\ pc' = MapNext(r.res)
             /\ IF MapCommit(r.res)
                THEN /\ srcPos' = srcPos + in.length
                     /\ sink' = sink \o r.out
                ELSE UNCHANGED <<srcPos, sink>>
  /\ UNCHANGED <<config, result, squash_splice_try_mmap, locked, first_block, remaining, file>>

\* splice.c 170-178: the mapped one-shot path, decompressing: the source
\* window and the first capacity of the sink window
SpliceMapDecompress ==
  /\ pc = "map" /\ stream_type = "DECOMPRESS"
  /\ LET in == squash_mapped_file_init(mappable.fp_in, 0, Len(source) - srcPos, FALSE, FALSE)
         data == SubSeq(source, srcPos + 1, srcPos + in.length)
     IN IF ~in.ok
        THEN pc' = MapNext(res) /\ UNCHANGED max_output_length
        ELSE /\ max_output_length' =
                  IF codec.knows THEN get_uncompressed_size(data)
                  ELSE ShiftLeft(squash_npot(in.length), 3)
             /\ pc' = "map_retry"
  /\ UNCHANGED <<config, res, srcPos, sink, emitted, fed, failed, result, squash_splice_try_mmap,
                 locked, first_block, remaining, file>>

\* splice.c 186-187: the bytes the sink window publishes on success
MapCommitted(out) == out

\* splice.c 191: whether the attempt is repeated at twice the capacity
MapAgain(r) == ~codec.knows /\ r = "BUFFER_FULL"

\* splice.c 180-199, 480: one attempt at the current capacity
SpliceMapRetry ==
  /\ pc = "map_retry"
  /\ LET out == squash_mapped_file_init(mappable.fp_out, max_output_length, 0, TRUE, FALSE)
         data == SubSeq(source, srcPos + 1, Len(source))
         r == squash_codec_decompress(codec, max_output_length, data)
     IN IF ~out.ok
        THEN /\ pc' = MapNext(res)
             /\ UNCHANGED <<res, srcPos, sink, emitted, fed, failed, max_output_length>>
        ELSE /\ res' = r.res
             /\ fed' = data
             /\ emitted' = emitted \o r.out
             /\ max_output_length' = IF r.res = "OK" THEN max_output_length
                                     ELSE ShiftLeft(max_output_length, 1)
             /\ failed' = IF r.res = "OK" \/ MapAgain(r.res) THEN failed
                          ELSE Fail("codec", r.res)
             /\ pc' = IF MapAgain(r.res) THEN "map_retry" ELSE MapNext(r.res)
             /\ IF MapCommit(r.res)
                THEN /\ srcPos' = Len(source)
                     /\ sink' = sink \o MapCommitted(r.out)
                ELSE UNCHANGED <<srcPos, sink>>
  /\ UNCHANGED <<config, result, squash_splice_try_mmap, locked, first_block, remaining, file>>

(* ------------------------ squash_splice_stream -------------------------- *)

\* splice.c 223, 247, 291, 310
ReqSize(left) ==
  IF length = 0 \/ left > SQUASH_FILE_BUF_SIZE THEN SQUASH_FILE_BUF_SIZE ELSE left

\* splice.c 222, 246, 290, 309
LoopOn(left) == length = 0 \/ left # 0

\* splice.c 209-220, 243-244
SpliceStreamEnter ==
  /\ pc = "stream"
  /\ res' = "FAILED"
  /\ remaining' = length
  /\ first_block' = TRUE
  /\ file' = IF SQUASH_MMAP_IO THEN NewFile ELSE NoFile
  /\ pc' = IF SQUASH_MMAP_IO THEN "map_block" ELSE "nomap"
  /\ UNCHANGED <<config, srcPos, sink, emitted, fed, failed, result, squash_splice_try_mmap, locked,
                 max_output_length>>

\* splice.c 238-239: the budget left after a block of n bytes was compressed
RemainingAfterWrite(left, n) == IF length # 0 THEN left - n ELSE left

\* splice.c 269-270: the budget left after a block of n bytes was decompressed
RemainingAfterRead(left, n) == left

\* splice.c 222-241: one block of the mapped variant, compressing
SpliceStreamMapWrite ==
  /\ pc = "map_block" /\ stream_type = "COMPRESS"
  /\ IF ~LoopOn(remaining)
     THEN /\ pc' = "nomap"
          /\ UNCHANGED <<res, srcPos, fed, failed, first_block, remaining, file>>
     ELSE LET map == squash_mapped_file_init(mappable.fp_in, ReqSize(remaining),
                                             Len(source) - srcPos, FALSE, TRUE)
              data == SubSeq(source, srcPos + 1, srcPos + map.length)
              w == squash_file_write(codec.fault, file, data)
          IN IF ~map.ok
             THEN /\ pc' = "nomap"
                  /\ UNCHANGED <<res, srcPos, fed, failed, first_block, remaining, file>>
             ELSE \/ \* a window past the first cannot be mapped
                     /\ ~first_block
                     /\ failed' = Fail("mem", "MAP")
                     /\ pc' = "nomap"
                     /\ UNCHANGED <<res, srcPos, fed, first_block, remaining, file>>
                  \/ /\ first_block' = FALSE
                     /\ res' = w.res
                     /\ file' = w.file
                     /\ fed' = w.file.acc
                     /\ IF w.res # "OK"
                        THEN /\ failed' = Fail("codec", w.res)
                             /\ pc' = "cleanup"
                             /\ UNCHANGED <<srcPos, remaining>>
                        ELSE /\ remaining' = RemainingAfterWrite(remaining, map.length)
                             /\ srcPos' = srcPos + map.length
                             /\ pc' = "map_block"
                             /\ UNCHANGED failed
  /\ UNCHANGED <<config, sink, emitted, result, squash_splice_try_mmap, locked, max_output_length>>

\* splice.c 246-270: one block of the mapped variant, decompressing
SpliceStreamMapRead ==
  /\ pc = "map_block" /\ stream_type = "DECOMPRESS"
  /\ IF ~LoopOn(remaining)
     THEN /\ pc' = "nomap"
          /\ UNCHANGED <<res, sink, emitted, failed, first_block, remaining, file>>
     ELSE LET map == squash_mapped_file_init(mappable.fp_out, ReqSize(remaining), 0,
                                             TRUE, TRUE)
              decoded == Decode(codec, source)
              r == squash_file_read(codec.fault, file, map.length, decoded)
          IN IF ~map.ok
             THEN /\ pc' = "nomap"
                  /\ UNCHANGED <<res, sink, emitted, failed, first_block, remaining, file>>
             ELSE \/ \* a window past the first cannot be mapped
                     /\ ~first_block
                     /\ failed' = Fail("mem", "MAP")
                     /\ pc' = "nomap"
                     /\ UNCHANGED <<res, sink, emitted, first_block, remaining, file>>
                  \/ /\ first_block' = FALSE
                     /\ IF IsError(r.res)
                        THEN /\ res' = r.res
                             /\ failed' = Fail("codec", r.res)
                             /\ pc' = "cleanup"
                             /\ UNCHANGED <<sink, emitted, remaining, file>>
                        ELSE /\ res' \in (IF r.res = "END_OF_STREAM" THEN {"OK"}
                                          ELSE FileReadStatus(r.res, Len(decoded) - file.pos - r.n))
                             /\ sink' = sink \o SubSeq(decoded, file.pos + 1, file.pos + r.n)
                             /\ emitted' = emitted \o SubSeq(decoded, file.pos + 1, file.pos + r.n)
                             /\ file' = [file EXCEPT !.pos = @ + r.n]
                             /\ remaining' = RemainingAfterRead(remaining, r.n)
                             /\ pc' = IF r.res = "END_OF_STREAM" THEN "cleanup" ELSE "map_block"
                             /\ UNCHANGED failed
  /\ UNCHANGED <<config, srcPos, fed, result, squash_splice_try_mmap, locked,
                 max_output_length>>

\* splice.c 273-287: the buffered variant is entered unless the mapped one ended OK.
\* The SquashFile stolen anew goes on where the FILE stands.
SpliceStreamNoMap ==
  /\ pc = "nomap"
  /\ IF res # "OK"
     THEN \/ \* squash_file_steal_codec_with_options returns NULL
             /\ res' = "FAILED"
             /\ failed' = Fail("mem", "FAILED")
             /\ pc' = "cleanup"
             /\ UNCHANGED file
          \/ \* malloc fails
             /\ res' = "MEMORY"
             /\ failed' = Fail("mem", "MEMORY")
             /\ file' = NewFile
             /\ pc' = "cleanup"
          \/ /\ file' = [NewFile EXCEPT !.pos = file.pos]
             /\ pc' = "buffered"
             /\ UNCHANGED <<res, failed>>
     ELSE /\ pc' = "cleanup"
          /\ UNCHANGED <<res, failed, file>>
  /\ UNCHANGED <<config, srcPos, sink, emitted, fed, result, squash_splice_try_mmap, locked,
                 first_block, remaining, max_output_length>>

\* splice.c 294-297: the status when fread returned no byte
AfterEmptyRead(at_eof) == IF at_eof THEN "OK" ELSE "IO"

\* splice.c 290-307: one turn of the buffered variant, compressing
SpliceStreamWrite ==
  /\ pc = "buffered" /\ stream_type = "COMPRESS"
  /\ \E io_error \in BOOLEAN :
       LET avail == Len(source) - srcPos
           data_length == IF io_error THEN 0 ELSE Min(ReqSize(remaining), avail)
           data == SubSeq(source, srcPos + 1, srcPos + data_length)
           w == squash_file_write(codec.fault, file, data)
           left == IF remaining # 0 THEN remaining - data_length ELSE remaining
       IN IF data_length = 0
          THEN /\ res' = AfterEmptyRead(~io_error)
               /\ failed' = IF io_error THEN Fail("rd", "IO") ELSE failed
               /\ pc' = "cleanup"
               /\ UNCHANGED <<srcPos, fed, remaining, file>>
          ELSE /\ srcPos' = srcPos + data_length
               /\ res' = w.res
               /\ file' = w.file
               /\ fed' = w.file.acc
               /\ IF w.res # "OK"
                  THEN /\ failed' = Fail("codec", w.res)
                       /\ pc' = "cleanup"
                       /\ UNCHANGED remaining
                  ELSE /\ remaining' = left
                       /\ pc' = IF LoopOn(left) THEN "buffered" ELSE "cleanup"
                       /\ UNCHANGED failed
  /\ UNCHANGED <<config, sink, emitted, result, squash_splice_try_mmap, locked, first_block,
                 max_output_length>>

\* splice.c 309-336: one turn of the buffered variant, decompressing
SpliceStreamRead ==
  /\ pc = "buffered" /\ stream_type = "DECOMPRESS"
  /\ LET decoded == Decode(codec, source)
         r == squash_file_read(codec.fault, file, ReqSize(remaining), decoded)
         left == IF remaining # 0 THEN remaining - r.n ELSE remaining
     IN IF IsError(r.res)
        THEN /\ res' = r.res
             /\ failed' = Fail("codec", r.res)
             /\ pc' = "cleanup"
             /\ UNCHANGED <<sink, emitted, remaining, file, result>>
        ELSE IF r.n > 0
        THEN \/ \* fwrite writes nothing: the assertion fails, or NDEBUG and IO
                /\ file' = [file EXCEPT !.pos = @ + r.n]
                /\ failed' = Fail("wr", "IO")
                /\ \/ result' = "ABORT" /\ pc' = "done" /\ res' = res
                   \/ result' = result /\ pc' = "cleanup" /\ res' = "IO"
                /\ emitted' = emitted \o SubSeq(decoded, file.pos + 1, file.pos + r.n)
                /\ UNCHANGED <<sink, remaining>>
             \/ /\ file' = [file EXCEPT !.pos = @ + r.n]
                /\ sink' = sink \o SubSeq(decoded, file.pos + 1, file.pos + r.n)
                /\ emitted' = emitted \o SubSeq(decoded, file.pos + 1, file.pos + r.n)
                /\ remaining' = left
                /\ res' = "OK"
                /\ pc' = IF r.res # "END_OF_STREAM" /\ LoopOn(left) THEN "buffered"
                         ELSE "cleanup"
                /\ UNCHANGED <<failed, result>>
        ELSE /\ res' = "OK"
             /\ pc' = IF r.res # "END_OF_STREAM" /\ LoopOn(remaining) THEN "buffered"
                      ELSE "cleanup"
             /\ UNCHANGED <<sink, emitted, remaining, file, failed, result>>
  /\ UNCHANGED <<config, srcPos, fed, squash_splice_try_mmap, locked, first_block,
                 max_output_length>>

\* splice.c 340-348: squash_file_free ends the compressed stream in the sink
SpliceStreamCleanup ==
  /\ pc = "cleanup"
  /\ LET flushed == IF stream_type = "COMPRESS" /\ file.open /\ codec.fault = "none"
                     THEN Encode(codec, file.acc) ELSE <<>>
     IN sink' = sink \o flushed /\ emitted' = emitted \o flushed
  /\ file' = NoFile
  /\ pc' = "unlock"
  /\ UNCHANGED <<config, res, srcPos, fed, failed, result, squash_splice_try_mmap, locked,
                 first_block, remaining, max_output_length>>

\* splice.c 484-487
FileUnlock ==
  /\ pc = "unlock"
  /\ locked' = {}
  /\ result' = res
  /\ pc' = "done"
  /\ UNCHANGED <<config, res, srcPos, sink, emitted, fed, failed, squash_splice_try_mmap,
                 first_block, remaining, file, max_output_length>>

NextFile ==
  \/ FileDispatch
  \/ SpliceMapCompress
  \/ SpliceMapDecompress
  \/ SpliceMapRetry
  \/ SpliceStreamEnter
  \/ SpliceStreamMapWrite
  \/ SpliceStreamMapRead
  \/ SpliceStreamNoMap
  \/ SpliceStreamWrite
  \/ SpliceStreamRead
  \/ SpliceStreamCleanup
  \/ FileUnlock

FileSpec == InitFile /\ [][NextFile]_vars

\* a call of either entry point
SpliceSpec == (Init \/ InitFile) /\ [][Next \/ NextFile]_vars

(* ------------- inputs that decompress to more than they hold ------------ *)

\* the sizes an encoding announces: 0, the powers of two of a size_t and
\* their successors
Sizes ==
  {0} \cup {n \in 1..(SizeMod - 1) : \E k \in 0..SIZE_BITS : n \in {Pow2(k), Pow2(k) + 1}}

\* the inputs of a decompression: no bytes at all, and the encodings that
\* announce a size and spell out the first bytes only
Encodings ==
  {<<>>} \cup UNION {{<<n>> \o Flip(Plain(k)) : k \in 0..Min(n, MaxLen)} : n \in Sizes}

\* a call that decompresses such an input with a buffer-only codec that does
\* not know the uncompressed size
InitExpand ==
  /\ stream_type = "DECOMPRESS"
  /\ length \in {0, MaxLen}
  /\ codec \in {c \in Codecs : ~c.process_stream /\ ~c.knows}
  /\ source \in Encodings
  /\ plain = BufferDecode(source)
  /\ NoNative
  /\ NoThreads
  /\ InitLocals

InitCustomExpand == InitExpand /\ NoFiles /\ caller = "user" /\ pc = "entry"

InitFileExpand ==
  /\ InitExpand
  /\ caller = "file"
  /\ pc = "dispatch"
  /\ SQUASH_MAP_SPLICE \in {"unset", "always"}
  /\ SQUASH_MMAP_IO \in BOOLEAN
  /\ mappable \in [{"fp_in", "fp_out"} -> BOOLEAN]
  /\ squash_splice_try_mmap = 0
  /\ locked = {}
  /\ first_block = TRUE
  /\ remaining = 0
  /\ file = NoFile
  /\ max_output_length = 0

\* the accumulator variant of the custom entry point
NextAcc ==
  \/ CustomEntry
  \/ AccRead
  \/ AccProcess
  \/ AccRetry
  \/ AccWrite
  \/ CleanupBuffer

\* a step of the accumulator variant in which no allocation fails
AccRuns == NextAcc /\ failed'.mem = failed.mem

\* the accumulator variant on the expanding inputs: the call keeps running,
\* and no allocation has to fail
RetryLiveSpec == InitCustomExpand /\ [][NextAcc]_vars /\ WF_vars(AccRuns)

\* every call of the two entry points, the expanding inputs included
RetrySpec ==
  (Init \/ InitFile \/ InitCustomExpand \/ InitFileExpand) /\ [][Next \/ NextFile]_vars

(* -------------- concurrent calls of the file entry points --------------- *)

\* the codec registry: a codec with a native splice, one with a stream
\* interface, one with the buffer interface only
Registry ==
  [native |-> [splice |-> TRUE, process_stream |-> FALSE],
   stream |-> [splice |-> FALSE, process_stream |-> TRUE],
   buffer |-> [splice |-> FALSE, process_stream |-> FALSE]]

\* the codec names a caller may pass; "unknown" is in no registry
Names == DOMAIN Registry \cup {"unknown"}

\* squash_get_codec (name) # NULL
Registered(name) == name \in DOMAIN Registry

EnvValues == {"unset", "no", "yes", "always", "other"}

\* the state of the one-call specifications, which the threads leave alone
single == <<args, env, locals, pc, heap, result, SQUASH_MMAP_IO, mappable, locked, first_block,
            remaining, file, max_output_length, nstate>>

InitThreads ==
  /\ stream_type = "COMPRESS"
  /\ length = 0
  /\ codec = [splice |-> FALSE, process_stream |-> TRUE, knows |-> FALSE, fault |-> "none"]
  /\ plain = <<>>
  /\ source = <<>>
  /\ caller = "file"
  /\ NoNative
  /\ NoThreads
  /\ InitLocals
  /\ SQUASH_MAP_SPLICE = "unset"
  /\ SQUASH_MMAP_IO = FALSE
  /\ mappable = [fp_in |-> FALSE, fp_out |-> FALSE]
  /\ squash_splice_try_mmap = 0
  /\ locked = {}
  /\ first_block = TRUE
  /\ remaining = 0
  /\ file = NoFile
  /\ max_output_length = 0
  /\ pc = "threads"

\* flockfile: the lock of a FILE is recursive and owned by one thread
CanLock(l, t, h) == l[h].owner \in {"none", t}

flockfile(l, t, h) == [l EXCEPT ![h] = [owner |-> t, count |-> @.count + 1]]

\* funlockfile; on a FILE the thread does not own it is without effect here
funlockfile(l, t, h) ==
  IF l[h].owner # t THEN l
  ELSE IF l[h].count = 1 THEN [l EXCEPT ![h] = Unlocked]
  ELSE [l EXCEPT ![h].count = @ - 1]

Holds(t, h) == lock[h].owner = t

\* splice.c 142-144, 73-75: where the call goes after the registry lookup
AfterLookupAlways(found) == "once"

AfterLookup(found) == IF found THEN "once" ELSE "returned"

\* splice.c 66-82, 137-147: squash_splice / squash_splice_with_options is called
\* with a codec name and two different FILEs, and looks the codec up
SpliceWithOptions(t) ==
  /\ pc = "threads"
  /\ tpc[t] \in {"idle", "returned"}
  /\ \E name \in Names, fp_in \in Handles, fp_out \in Handles :
       /\ fp_in # fp_out
       /\ call' = [call EXCEPT ![t] = [name |-> name, fp_in |-> fp_in, fp_out |-> fp_out]]
       /\ tpc' = [tpc EXCEPT ![t] = AfterLookup(Registered(name))]
       /\ ret' = [ret EXCEPT ![t] = IF tpc'[t] = "returned" THEN "BAD_PARAM" ELSE "none"]
  /\ locking' = [locking EXCEPT ![t] = FALSE]
  /\ touched' = [touched EXCEPT ![t] = FALSE]
  /\ UNCHANGED <<single, SQUASH_MAP_SPLICE, squash_splice_try_mmap, lock,
                 squash_splice_detect_once, seen, lastUser, cut, interleaved>>

\* call_once: whether the function is run by this caller
OnceGuardOpen(flag) == TRUE

OnceGuard(flag) == flag = "init"

\* splice.c 468: call_once (&squash_splice_detect_once, squash_splice_detect_enable);
\* a caller that arrives while the function runs waits for its return. By the
\* time of a call the program may have set the variable to any value.
DetectOnce(t) ==
  /\ tpc[t] = "once"
  /\ IF OnceGuard(squash_splice_detect_once)
     THEN \E ev \in EnvValues :
            /\ SQUASH_MAP_SPLICE' = ev
            /\ squash_splice_try_mmap' = squash_splice_detect_enable(ev)
            /\ seen' = IF seen = "never" THEN ev ELSE seen
            /\ squash_splice_detect_once' = "done"
     ELSE /\ SQUASH_MAP_SPLICE' \in EnvValues
          /\ UNCHANGED <<squash_splice_try_mmap, seen, squash_splice_detect_once>>
  /\ tpc' = [tpc EXCEPT ![t] = "lock_in"]
  /\ UNCHANGED <<single, call, lock, locking, touched, ret,
                 lastUser, cut, interleaved>>

\* splice.c 470: SQUASH_FLOCKFILE(fp_in), which waits while another thread holds it
LockInput(t) ==
  /\ tpc[t] = "lock_in"
  /\ locking' = [locking EXCEPT ![t] = TRUE]
  /\ CanLock(lock, t, call[t].fp_in)
  /\ lock' = flockfile(lock, t, call[t].fp_in)
  /\ tpc' = [tpc EXCEPT ![t] = "lock_out"]
  /\ UNCHANGED <<single, SQUASH_MAP_SPLICE, squash_splice_try_mmap, call,
                 squash_splice_detect_once, seen, touched, ret, lastUser, cut,
                 interleaved>>

\* a dispatcher that would lock fp_in a second time
OutputLockInput(c) == c.fp_in

\* splice.c 471: the FILE of the second lock
OutputLock(c) == c.fp_out

\* splice.c 471: SQUASH_FLOCKFILE(fp_out)
LockOutput(t) ==
  /\ tpc[t] = "lock_out"
  /\ CanLock(lock, t, OutputLock(call[t]))
  /\ lock' = flockfile(lock, t, OutputLock(call[t]))
  /\ tpc' = [tpc EXCEPT ![t] = "dispatch"]
  /\ UNCHANGED <<single, SQUASH_MAP_SPLICE, squash_splice_try_mmap, call,
                 squash_splice_detect_once, seen, locking, touched, ret, lastUser,
                 cut, interleaved>>

\* splice.c 473-478: the path the dispatcher enters first
FirstPath(try_mmap, c) ==
  IF c.splice THEN "native"
  ELSE IF TryMap(try_mmap, c) THEN "map"
  ELSE "stream"

\* splice.c 473-478: the dispatcher reads the preference and enters a path
Dispatch(t) ==
  /\ tpc[t] = "dispatch"
  /\ LET path == FirstPath(squash_splice_try_mmap, Registry[call[t].name])
     IN tpc' = [tpc EXCEPT ![t] = path]
  /\ UNCHANGED <<single, SQUASH_MAP_SPLICE, squash_splice_try_mmap, call, lock,
                 squash_splice_detect_once, seen, locking, touched, ret, lastUser, cut,
                 interleaved>>

\* a read, a write, a mapping or a codec call of the running path on one of
\* the two FILEs of the call (splice.c 156-197, 219-346, 400, 418)
Access(t) ==
  /\ tpc[t] \in {"native", "map", "stream"}
  /\ \E h \in {call[t].fp_in, call[t].fp_out} :
       /\ touched' = [touched EXCEPT ![t] = TRUE]
       /\ lastUser' = [lastUser EXCEPT ![h] = t]
       /\ cut' = [cut EXCEPT ![h] = IF lastUser[h] \in {"none", t} THEN @
                                     ELSE @ \cup {lastUser[h]}]
       /\ interleaved' = (interleaved \/ t \in cut[h])
  /\ UNCHANGED <<single, SQUASH_MAP_SPLICE, squash_splice_try_mmap, tpc, call, lock,
                 squash_splice_detect_once, seen, locking, ret>>

\* splice.c 474, 477-481: the running path returns st
PathReturn(t) ==
  /\ tpc[t] \in {"native", "map", "stream"}
  /\ \E st \in {"OK", "FAILED"} :
       IF tpc[t] = "map"
       THEN /\ tpc' = [tpc EXCEPT ![t] = MapNext(st)]
            /\ ret' = [ret EXCEPT ![t] = IF MapNext(st) = "stream" THEN @ ELSE st]
       ELSE /\ tpc' = [tpc EXCEPT ![t] = "unlock"]
            /\ ret' = [ret EXCEPT ![t] = st]
  /\ UNCHANGED <<single, SQUASH_MAP_SPLICE, squash_splice_try_mmap, call, lock,
                 squash_splice_detect_once, seen, locking, touched, lastUser, cut,
                 interleaved>>

\* splice.c 484: SQUASH_FUNLOCKFILE(fp_in)
UnlockInput(t) ==
  /\ tpc[t] = "unlock"
  /\ lock' = funlockfile(lock, t, call[t].fp_in)
  /\ tpc' = [tpc EXCEPT ![t] = "unlock_out"]
  /\ UNCHANGED <<single, SQUASH_MAP_SPLICE, squash_splice_try_mmap, call,
                 squash_splice_detect_once, seen, locking, touched, ret, lastUser,
                 cut, interleaved>>

\* splice.c 485-487: SQUASH_FUNLOCKFILE(fp_out) and the return
UnlockOutput(t) ==
  /\ tpc[t] = "unlock_out"
  /\ lock' = funlockfile(lock, t, call[t].fp_out)
  /\ tpc' = [tpc EXCEPT ![t] = "returned"]
  /\ lastUser' = [h \in Handles |-> IF lastUser[h] = t THEN "none" ELSE lastUser[h]]
  /\ cut' = [h \in Handles |-> cut[h] \ {t}]
  /\ UNCHANGED <<single, SQUASH_MAP_SPLICE, squash_splice_try_mmap, call,
                 squash_splice_detect_once, seen, locking, touched, ret, interleaved>>

NextThreads ==
  \E t \in Threads :
       \/ SpliceWithOptions(t)
       \/ DetectOnce(t)
       \/ LockInput(t)
       \/ LockOutput(t)
       \/ Dispatch(t)
       \/ Access(t)
       \/ PathReturn(t)
       \/ UnlockInput(t)
       \/ UnlockOutput(t)

\* the threads of a process calling squash_splice_with_options
ThreadSpec == InitThreads /\ [][NextThreads]_vars

\* a step of the call of thread t that waits for nothing
Proceeds(t) ==
  \/ DetectOnce(t)
  \/ Dispatch(t)
  \/ UnlockInput(t)
  \/ UnlockOutput(t)

\* the threads are scheduled, a FILE lock that is free again and again is
\* acquired, and a path returns
ThreadsRun ==
  \A t \in Threads :
    /\ WF_vars(Proceeds(t))
    /\ SF_vars(LockInput(t))
    /\ SF_vars(LockOutput(t))
    /\ WF_vars(PathReturn(t))

ThreadLiveSpec == InitThreads /\ [][NextThreads]_vars /\ ThreadsRun

TypeOK ==
  /\ pc \in {"entry", "read", "process", "write", "cleanup_stream", "acc_read",
             "acc_process", "acc_retry", "acc_write", "cleanup_buffer", "done", "native",
             "threads", "dispatch", "map", "map_retry", "stream", "map_block", "nomap", "buffered",
             "cleanup", "unlock"}
  /\ result \in {"none", "OK", "ABORT"} \cup ErrorStatus
  /\ (pc = "done") = (result # "none")
  /\ srcPos \in 0..Len(source)
  /\ heap \subseteq {"stream", "in_buf", "out_buf", "buffer", "out_data"}
  /\ remaining \in 0..MaxLen
  /\ locked \subseteq {"fp_in", "fp_out"}

(* ------------------------------ the claims ----------------------------- *)

IsPrefix(a, b) == Len(a) <= Len(b) /\ a = SubSeq(b, 1, Len(a))

NothingFailed ==
  /\ failed = [rd |-> "none", wr |-> "none", codec |-> "none", mem |-> "none"]
  /\ codec.fault = "none"

\* C1: decompressing through squash_splice_codec_with_options with a budget
\* n > 0, n <= |X|, never puts more than n bytes in the sink, and a call that
\* returns OK has left exactly X[0:n] there, whichever path the dispatcher took.
C1_Original ==
  limit_output /\ length <= Len(plain) =>
    /\ Len(sink) <= length
    /\ (pc = "done" /\ result = "OK" => sink = Take(plain, length))

\* C2: decompressing through squash_splice_custom_codec_with_options with a
\* budget n > 0, write_cb never accepts more than n bytes in all; when the
\* codec's output has at least n bytes and no callback, allocation or codec call
\* fails, the call returns OK and the bytes write_cb accepted are the first n
\* bytes of the codec's output.
C2_Original ==
  limit_output =>
    /\ Len(sink) <= length
    /\ (pc = "done" /\ NothingFailed /\ length <= Len(plain) =>
          result = "OK" /\ sink = Take(plain, length))

\* C3: compressing with a budget n > 0 from a source X, n <= |X|, on every
\* path: never more than n bytes are taken from the source, the bytes fed to the
\* codec are a prefix of X[0:n], and when the call returns OK they are X[0:n]
\* and the codec's output decompresses to X[0:n].
C3_BudgetedCompress ==
  limit_input /\ length <= Len(plain) =>
    /\ srcPos <= length
    /\ IsPrefix(fed, Take(plain, length))
    /\ (pc = "done" /\ result = "OK" =>
          fed = Take(plain, length) /\ Decode(codec, emitted) = Take(plain, length))

\* a budgeted compression through the stream loop that took several reads and
\* returned OK having fed the first n < |X| bytes
C3_Witness ==
  /\ pc = "done" /\ result = "OK"
  /\ limit_input /\ length < Len(plain) /\ length > SQUASH_SPLICE_BUF_SIZE
  /\ codec.process_stream /\ "stream" \in heap
  /\ srcPos = length /\ fed = Take(plain, length)

\* C4: a splice call with length # 0 that returns OK has transferred exactly
\* length uncompressed bytes: read from the source when compressing, written to
\* the sink when decompressing.
C4_Original ==
  pc = "done" /\ result = "OK" /\ length # 0 =>
    IF stream_type = "COMPRESS" THEN srcPos = length ELSE Len(sink) = length

\* C5: in the stream loop, once write_cb has returned a negative status no
\* further read, codec or write call is made and the call returns that status.
C5_Original ==
  codec.process_stream /\ failed.wr # "none" =>
    /\ late.wr = {}
    /\ (pc = "done" => result = failed.wr)

\* C6: once read_cb has returned a negative status, on the stream-loop path or
\* the accumulator path, no further read, codec or write call is made and the
\* call returns exactly that status.
C6_ReadFailureIsFatal ==
  failed.rd # "none" =>
    /\ late.rd = {}
    /\ pc \in {"cleanup_stream", "done"}
    /\ (pc = "done" => result = failed.rd)

\* a call that returned the IO status of a read_cb call that came after
\* successful ones
C6_Witness ==
  /\ pc = "done" /\ failed.rd = "IO" /\ result = "IO"
  /\ srcPos > 0 /\ late.rd = {}

\* C7: on the accumulator path, when decompress_buffer returns INVALID_BUFFER or
\* FAILED, write_cb is not called and the call returns that status.
C7_Original ==
  /\ ~codec.process_stream /\ stream_type = "DECOMPRESS"
  /\ failed.codec \in {"INVALID_BUFFER", "FAILED"}
  => /\ "write" \notin late.codec
     /\ (pc = "done" => result = failed.codec)

\* C8: a splice through a codec with compress_buffer and decompress_buffer
\* never returns BUFFER_FULL, whatever those return.
C8_Original == ~codec.process_stream => result # "BUFFER_FULL"

\* C9: every return of squash_splice_custom_codec_with_options has released
\* every resource the call acquired.
C9_Original == pc = "done" /\ result # "ABORT" => heap = {}

\* C10: as long as no write_cb call failed, the bytes write_cb accepted are the
\* codec's output in order, nothing duplicated, skipped or reordered, short
\* writes included.
C10_Original == failed.wr = "none" => IsPrefix(sink, emitted)

\* C11: for a codec with a native splice, the custom entry point invokes the
\* splice exactly once, with the caller's own read_cb, write_cb and user_data
\* when length = 0 and with the limiter callbacks wrapping them when
\* length # 0, and returns the status of the splice.
C11_Original ==
  /\ splice_calls <= 1
  /\ pc \in {"native", "done"} =>
       /\ splice_calls = 1
       /\ IF length = 0
          THEN passed = Callbacks(caller)
          ELSE /\ passed.read = "squash_splice_custom_limited_read"
               /\ passed.write = "squash_splice_custom_limited_write"
               /\ ctx.read_func = Callbacks(caller).read
               /\ ctx.write_func = Callbacks(caller).write
               /\ ctx.user_data = Callbacks(caller).user_data
  /\ pc = "done" /\ result # "ABORT" => result = res

\* the bytes that went through the limited side in calls that did not fail
Through == IF stream_type = "COMPRESS" THEN srcPos ELSE ctx.written

C13_Original ==
  length = 0 /\ pc = "done" /\ NothingFailed =>
    /\ result = "OK"
    /\ sink = IF stream_type = "COMPRESS" THEN Encode(codec, plain) ELSE plain

\* C14: with length = 0 and nothing failing, compressing an empty source
\* returns OK and writes the encoding of the empty sequence, and decompressing
\* that encoding returns OK and writes no byte, for knowing and unknowing codecs.
C14_Original ==
  plain = <<>> /\ length = 0 /\ pc = "done" /\ NothingFailed =>
    /\ result = "OK"
    /\ sink = IF stream_type = "COMPRESS" THEN Encode(codec, <<>>) ELSE <<>>

\* what the buffered variant of squash_splice_stream delivers
BufferedSink ==
  LET x == IF length = 0 THEN plain ELSE Take(plain, length)
  IN IF stream_type = "COMPRESS" THEN Encode(codec, x) ELSE x

\* C15: for every codec, input, direction and length, when nothing fails the
\* sink and the status are the same on every path the dispatcher can take: they
\* are what the buffered stream path delivers for that input.
C15_Original ==
  pc = "done" /\ NothingFailed => result = "OK" /\ sink = BufferedSink

\* C19: a step of squash_splice_map publishes bytes and advances the source
\* only where it ends with OK, and then the dispatcher goes to the unlock
\* without the stream path; on every other status the sink and the source
\* position are as before the map path, nothing is published, and the
\* dispatcher enters the stream path, whose status is the one returned.
C19_OnePath ==
  [][/\ pc \in {"map", "map_retry"} =>
          /\ (pc' = "unlock") <=> (res' = "OK")
          /\ pc' # "unlock" => pc' \in {"stream", "map_retry"}
          /\ res' # "OK" => sink' = sink /\ srcPos' = srcPos
          /\ sink = <<>> /\ srcPos = 0
     /\ pc' = "stream" => sink' = <<>> /\ srcPos' = 0 /\ res' # "OK"
     /\ pc = "unlock" => result' = res]_vars

\* the codec failed in the mapped one-shot path after both windows were
\* mapped, and the stream path has run since
C19_Witness ==
  /\ pc = "unlock"
  /\ TryMap(squash_splice_try_mmap, codec)
  /\ max_output_length > 0
  /\ failed.codec # "none"
  /\ failed.mem = "none"
  /\ res = failed.codec

\* C12: a thread whose call is at the dispatch or in a path holds the locks
\* of both FILEs of the call; a thread whose call has returned (or that has
\* made none) holds no lock; and no call accesses a FILE again after another
\* call has accessed that FILE in between.
C12_LockedPaths ==
  /\ \A t \in Threads :
        tpc[t] \in {"dispatch", "native", "map", "stream"} =>
          Holds(t, call[t].fp_in) /\ Holds(t, call[t].fp_out)
  /\ \A t \in Threads :
        tpc[t] \in {"idle", "returned"} => \A h \in Handles : ~Holds(t, h)
  /\ ~interleaved

\* one call runs its stream path and has accessed a FILE, while the call of
\* the other thread waits for the lock of the FILE the two share
C12_Witness ==
  /\ tpc["t1"] = "stream" /\ touched["t1"]
  /\ tpc["t2"] = "lock_in"
  /\ call["t2"].fp_in = call["t1"].fp_out

\* C16: the dispatcher of a codec without native splice enters the mapped
\* one-shot path exactly when the preference is always (3), or yes (2) with a
\* codec without stream interface, and never with no (1); the mapped one-shot
\* path is entered from the dispatch only; with a native splice the call is
\* never in the mapped one-shot path or the stream path.
C16_PathChoice ==
  [][\A t \in Threads :
       /\ tpc[t] = "dispatch" /\ tpc'[t] # "dispatch" =>
            LET c == Registry[call[t].name]
                try == squash_splice_try_mmap
            IN /\ c.splice => tpc'[t] = "native"
               /\ ~c.splice =>
                    /\ (tpc'[t] = "map") <=> (try = 3 \/ (try = 2 /\ ~c.process_stream))
                    /\ tpc'[t] \in {"map", "stream"}
                    /\ try = 1 => tpc'[t] = "stream"
       /\ tpc'[t] = "map" /\ tpc[t] # "map" => tpc[t] = "dispatch"
       /\ tpc'[t] \in {"map", "stream"} => ~Registry[call'[t].name].splice]_vars

\* with the preference yes, the call of a buffer-only codec is in the mapped
\* one-shot path after the call of a codec with native splice has returned
C16_Witness ==
  /\ squash_splice_try_mmap = 2
  /\ tpc["t1"] = "map" /\ call["t1"].name = "buffer"
  /\ tpc["t2"] = "returned" /\ call["t2"].name = "native" /\ touched["t2"]

\* C17: once the guard was passed the preference is 1 for "no", 3 for
\* "always" and 2 for any other value or none, of the variable as the first
\* detection read it; no step changes it afterwards; and every call that is
\* past the guard finds the guard passed.
C17_DetectedOnce ==
  /\ [](squash_splice_detect_once = "done" =>
          squash_splice_try_mmap = IF seen = "no" THEN 1 ELSE IF seen = "always" THEN 3 ELSE 2)
  /\ [](\A t \in Threads :
          tpc[t] \in {"lock_in", "lock_out", "dispatch", "native", "map", "stream"} =>
            squash_splice_detect_once = "done")
  /\ [][squash_splice_detect_once = "done" =>
          /\ squash_splice_detect_once' = "done"
          /\ squash_splice_try_mmap' = squash_splice_try_mmap]_vars

\* the first call saw "no"; a later call, made with the variable at "always",
\* is at the dispatch with the preference still 1
C17_Witness ==
  /\ seen = "no" /\ SQUASH_MAP_SPLICE = "always"
  /\ squash_splice_try_mmap = 1
  /\ tpc["t1"] = "returned" /\ ret["t1"] = "OK"
  /\ tpc["t2"] = "dispatch"

\* C18: a call with a codec name that is not registered has returned
\* BAD_PARAM without asking for a lock, holding one, or accessing a FILE.
C18_UnknownCodec ==
  \A t \in Threads :
    call[t].name = "unknown" =>
      /\ tpc[t] = "returned" /\ ret[t] = "BAD_PARAM"
      /\ ~locking[t] /\ ~touched[t]
      /\ \A h \in Handles : ~Holds(t, h)

\* a call with an unknown name has returned while the other thread holds the
\* locks of the two FILEs it was given
C18_Witness ==
  /\ call["t1"].name = "unknown" /\ tpc["t1"] = "returned"
  /\ Holds("t2", call["t1"].fp_in) /\ Holds("t2", call["t1"].fp_out)
  /\ touched["t2"]

\* C21: with the limiter installed, a call on the unlimited side (the write
\* wrapper when compressing, the read wrapper when decompressing) is delegated
\* to the user callback with the length the codec asked, and returns the
\* status and the length the user callback reported.
C21_Original ==
  passed.user_data = "ctx" /\ last.side # "none" /\ ~last.limited =>
    /\ last.delegated
    /\ last.asked = last.req
    /\ last.res = last.cb_res
    /\ last.n = last.cb_n

\* C22: in the stream loop decompressing with an output budget, the loop is
\* never about to call read_cb once the stream has produced length bytes or
\* more.
C22_Original ==
  ~(pc = "read" /\ limit_output /\ stream.total_out >= length)

\* C23: compressing through the stream loop with a budget, from a source that
\* holds more bytes than the budget and a read_cb that keeps the contract: once
\* the stream has consumed length bytes, the call eventually returns.
C23_Original ==
  (limit_input /\ Len(source) > length /\ pc \in {"read", "process", "write"}
     /\ stream.total_in = length)
    ~> (pc = "done")

\* C24: where the mapped-block loop of squash_splice_stream is left with no
\* block mapped, nothing was transferred and the buffered variant is entered
\* (unless its own allocations fail); where it is left after a block was
\* mapped, the buffered variant is not entered and the status is OK.
C24_Original ==
  [][pc = "nomap" =>
       IF first_block
       THEN /\ res # "OK" /\ file.pos = 0 /\ file.acc = <<>> /\ sink = <<>>
            /\ pc' = "buffered" \/ failed'.mem # "none"
       ELSE pc' = "cleanup" /\ res' = "OK"]_vars

\* the size the input of an unknowing codec truly decompresses to
TrueSize == Len(plain)

\* splice.c 178, 715: the first capacity for an input of n bytes
RetrySeed(n) == ShiftLeft(squash_npot(n), 3)

\* a decompression by a buffer-only codec that does not know the uncompressed
\* size, of an input the codec accepts
UnknowingDecompress ==
  /\ stream_type = "DECOMPRESS"
  /\ ~codec.process_stream /\ ~codec.knows
  /\ codec.fault = "none" /\ BufferValid(source)

\* C25: an unknowing codec decompressing an input of true size S from a seed
\* npot(input_len) << 3 > 0 is tried at the capacities seed, 2 * seed,
\* 4 * seed, ... in the accumulator and in the mapped one-shot path alike: an
\* attempt at a capacity below S is followed by one at twice the capacity, and
\* the attempt at the first capacity that is at least S returns OK.
C25_Original ==
  [][UnknowingDecompress =>
       /\ pc = "acc_process" /\ pc' = "acc_retry" => out_data_size' = RetrySeed(Len(buffer))
       /\ pc = "acc_retry" /\ RetrySeed(Len(buffer)) > 0 /\ failed'.mem = "none" =>
            IF out_data_size < TrueSize
            THEN pc' = "acc_retry" /\ out_data_size' = 2 * out_data_size
            ELSE pc' = "acc_write" /\ res' = "OK"
       /\ pc = "map" /\ pc' = "map_retry" => max_output_length' = RetrySeed(Len(source))
       /\ pc = "map_retry" /\ RetrySeed(Len(source)) > 0 /\ mappable.fp_out =>
            IF max_output_length < TrueSize
            THEN pc' = "map_retry" /\ max_output_length' = 2 * max_output_length
            ELSE res' = "OK"]_vars

\* C26: the retry loop of an unknowing codec terminates for every input: the
\* call leaves the loop after finitely many attempts, also when the seed is 0
\* and when doubling the capacity wraps modulo 2^SIZE_BITS.
C26_Original == (pc = "acc_retry" /\ codec.fault = "none") ~> (pc # "acc_retry")

\* C27: decompressing through the stream loop with an output budget, the
\* assertion overrun < SQUASH_SPLICE_BUF_SIZE never fails and write_remaining
\* never underflows: the overrun is at most what the step produced.
C27_Original ==
  limit_output /\ codec.process_stream =>
    result # "ABORT" /\ write_remaining <= SQUASH_SPLICE_BUF_SIZE

\* the calls of the two threads are both under way, on the same two FILEs with
\* the roles swapped
Swapped ==
  /\ \A t \in Threads : tpc[t] \notin {"idle", "returned"}
  /\ call["t1"].fp_in = call["t2"].fp_out
  /\ call["t1"].fp_out = call["t2"].fp_in

\* C28: two concurrent calls on the same two FILEs with the roles swapped both
\* acquire their locks and return: the order of the locks cannot deadlock.
C28_Original == \A t \in Threads : Swapped ~> (tpc[t] = "returned")

====
